---- MODULE Spec2Model ----
(***************************************************************************)
(* FitTrack ML training pipeline (src/ml/train_models.py).                 *)
(*                                                                         *)
(* The module models one invocation of the training script: the three      *)
(* predictor classes (prepare_data, train, predict, save) and the          *)
(* top-level control flow of __main__.  Library calls are modelled by      *)
(* their documented behaviour (pandas fillna/median/get_dummies,           *)
(* scikit-learn train_test_split/StandardScaler/RandomForest*,             *)
(* joblib.dump).                                                           *)
(*                                                                         *)
(* Encodings.                                                              *)
(*  - A missing numeric cell (NaN) is the integer NaN == -1; every real    *)
(*    value is a non-negative even integer, so that the mean of the two    *)
(*    middle values of a median is again an integer.                       *)
(*  - A missing muscle_group cell is the empty string.                     *)
(*  - A DataFrame is [index, columns, data]; a Series is [index, data].    *)
(*    index holds the pandas row labels (0-based RangeIndex of read_csv),  *)
(*    which row filtering and splitting preserve.                          *)
(*  - The state of a fitted StandardScaler is kept exactly as the          *)
(*    per-column count / sum / sum of squares of the non-missing cells it  *)
(*    was fitted on (mean_ = sum/count, var_ = sumsq/count - mean_^2).     *)
(*    A scaled matrix is kept symbolically as the raw matrix together with *)
(*    the scaler state that standardised it.                               *)
(*  - The random forest is opaque: its fitted state records what it was    *)
(*    fitted on (sample count, column count, classes_); the labels it      *)
(*    predicts are a nondeterministic choice among classes_.               *)
(*  - The shuffle of train_test_split (random_state=42) is a               *)
(*    nondeterministic choice of a permutation of the row positions.       *)
(***************************************************************************)
EXTENDS Integers, Sequences, FiniteSets

VARIABLES
    args_model,   \* --model argument of the invocation
    df,           \* the table read from --data: a sequence of rows
    pc,           \* position of the script
    task,         \* task whose train_*_model function is executing ("" if none)
    started,      \* tasks whose train_*_model function has been entered
    predictor,    \* the predictor object of the executing function, or NoPredictor
    X,            \* train(): prepared feature matrix (local), or None
    y,            \* train(): prepared target vector (local), or None
    split,        \* train(): result of train_test_split (locals), or None
    scaled,       \* train(): X_train_scaled / X_test_scaled (locals), or None
    fs,           \* files at the three artifact paths
    saves,        \* per task: number of times save() was entered
    prediction    \* result of the last predict() on the live predictor, or None

vars == <<args_model, df, pc, task, started, predictor, X, y, split, scaled,
          fs, saves, prediction>>

-----------------------------------------------------------------------------
\* Bounds of the model

MaxRows == 3

MaxSplitRows == 5

MaxPrepRows == 3

-----------------------------------------------------------------------------
\* Values

NaN == -1

None == [none |-> TRUE]

Tasks == <<"workout_success", "recovery_time", "weight_progression">>

TaskSet == {Tasks[i] : i \in 1..Len(Tasks)}

ModelChoices == {"workout_success", "recovery_time", "weight_progression", "all"}

\* --------------------------------------------------------------- schemas

WorkoutSuccess_feature_names ==
    <<"sleep_hours", "sleep_quality", "calories", "protein", "fatigue_score",
      "days_since_rest", "planned_volume", "readiness_score", "injury_risk_score">>

RecoveryTime_feature_names ==
    <<"workout_volume", "workout_intensity", "sleep_quality", "nutrition_quality">>

RecoveryTime_muscle_groups ==
    <<"chest", "back", "shoulders", "legs", "arms", "core">>

WeightProgression_feature_names ==
    <<"previous_weight", "reps_achieved", "target_reps", "form_quality">>

feature_names(t) ==
    CASE t = "workout_success" -> WorkoutSuccess_feature_names
      [] t = "recovery_time" -> RecoveryTime_feature_names
      [] t = "weight_progression" -> WeightProgression_feature_names

ArtifactPath(t) ==
    CASE t = "workout_success" -> "models/workout_success_model.pkl"
      [] t = "recovery_time" -> "models/recovery_time_model.pkl"
      [] t = "weight_progression" -> "models/weight_progression_model.pkl"

Paths == {ArtifactPath(t) : t \in TaskSet}

\* --------------------------------------------------------------- sequences

Range(s) == {s[i] : i \in 1..Len(s)}

RECURSIVE SeqSum(_)
SeqSum(s) == IF s = <<>> THEN 0 ELSE Head(s) + SeqSum(Tail(s))

SetMin(S) == CHOOSE m \in S : \A v \in S : m <= v

RemoveAt(s, i) == SubSeq(s, 1, i - 1) \o SubSeq(s, i + 1, Len(s))

RECURSIVE SortInts(_)
SortInts(s) ==
    IF s = <<>> THEN <<>>
    ELSE LET m == SetMin(Range(s))
             i == CHOOSE k \in 1..Len(s) : s[k] = m
         IN <<m>> \o SortInts(RemoveAt(s, i))

RowPermutations(n) ==
    {p \in [1..n -> 1..n] : \A i, j \in 1..n : p[i] = p[j] => i = j}

\* --------------------------------------------------------------- pandas

\* Series.median(): missing cells are skipped; the median of no value is NaN.
median(values) ==
    LET v == SortInts(SelectSeq(values, LAMBDA c : c # NaN))
        n == Len(v)
    IN IF n = 0 THEN NaN
       ELSE IF n % 2 = 1 THEN v[(n + 1) \div 2]
       ELSE (v[n \div 2] + v[n \div 2 + 1]) \div 2

\* df[names] of a sequence of rows carrying their row labels.
SelectColumns(rows, names) ==
    [index |-> [i \in 1..Len(rows) |-> rows[i].label],
     columns |-> names,
     data |-> [i \in 1..Len(rows) |-> [j \in 1..Len(names) |-> rows[i].cells[names[j]]]]]

SelectColumn(rows, name) ==
    [index |-> [i \in 1..Len(rows) |-> rows[i].label],
     data |-> [i \in 1..Len(rows) |-> rows[i].cells[name]]]

FrameColumn(frame, j) == [i \in 1..Len(frame.data) |-> frame.data[i][j]]

\* DataFrame.median(): one median per column.
frame_median(frame) ==
    [j \in 1..Len(frame.columns) |-> median(FrameColumn(frame, j))]

\* DataFrame.fillna(values): a missing cell takes its column's fill value;
\* a fill value that is itself NaN leaves the cell missing.
fillna(frame, fill) ==
    [frame EXCEPT !.data =
        [i \in 1..Len(frame.data) |->
            [j \in 1..Len(frame.columns) |->
                IF frame.data[i][j] = NaN THEN fill[j] ELSE frame.data[i][j]]]]

\* Alphabetical rank of the category labels (get_dummies sorts its columns).
LabelRank ==
    [arms |-> 1, back |-> 2, chest |-> 3, core |-> 4, glutes |-> 5,
     legs |-> 6, shoulders |-> 7]

RECURSIVE SortLabels(_)
SortLabels(S) ==
    IF S = {} THEN <<>>
    ELSE LET m == CHOOSE a \in S : \A b \in S : LabelRank[a] <= LabelRank[b]
         IN <<m>> \o SortLabels(S \ {m})

DummyName ==
    [arms |-> "muscle_arms", back |-> "muscle_back", chest |-> "muscle_chest",
     core |-> "muscle_core", glutes |-> "muscle_glutes", legs |-> "muscle_legs",
     shoulders |-> "muscle_shoulders"]

\* pd.get_dummies(series, prefix='muscle'): one indicator column per distinct
\* non-missing value, in sorted order; a missing cell gives an all-zero row.
get_dummies(series) ==
    LET cats == SortLabels(Range(series.data) \ {""})
    IN [index |-> series.index,
        columns |-> [k \in 1..Len(cats) |-> DummyName[cats[k]]],
        data |-> [i \in 1..Len(series.data) |->
                    [k \in 1..Len(cats) |->
                        IF series.data[i] = cats[k] THEN 1 ELSE 0]]]

\* pd.concat([a, b], axis=1) of two frames with the same index.
concat_columns(a, b) ==
    [index |-> a.index,
     columns |-> a.columns \o b.columns,
     data |-> [i \in 1..Len(a.data) |-> a.data[i] \o b.data[i]]]

\* --------------------------------------------------------------- prepare_data

Raised(e) == [ok |-> FALSE, error |-> e]

\* WorkoutSuccessPredictor.prepare_data; astype(int) raises on a missing cell.
WorkoutSuccessPredictor_prepare_data(rows) ==
    LET F == SelectColumns(rows, WorkoutSuccess_feature_names)
        t == SelectColumn(rows, "workout_completed")
    IN IF \E i \in 1..Len(t.data) : t.data[i] = NaN
       THEN Raised("ValueError")
       ELSE [ok |-> TRUE, X |-> fillna(F, frame_median(F)), y |-> t]

\* RecoveryTimePredictor.prepare_data
RecoveryTimePredictor_prepare_data(rows) ==
    LET F == SelectColumns(rows, RecoveryTime_feature_names)
        muscle_dummies == get_dummies(SelectColumn(rows, "muscle_group"))
    IN [ok |-> TRUE,
        X |-> concat_columns(fillna(F, frame_median(F)), muscle_dummies),
        y |-> SelectColumn(rows, "actual_recovery_days")]

\* df[df['successful'] == True]
FilterSuccessful(rows) == SelectSeq(rows, LAMBDA r : r.cells["successful"] = TRUE)

\* WeightProgressionPredictor.prepare_data with the medians taken over the
\* whole table instead of the retained rows.
WeightProgressionPredictor_prepare_data_df_median(rows) ==
    LET df_success == FilterSuccessful(rows)
        F == SelectColumns(df_success, WeightProgression_feature_names)
    IN [ok |-> TRUE,
        X |-> fillna(F, frame_median(SelectColumns(rows, WeightProgression_feature_names))),
        y |-> SelectColumn(df_success, "weight_increase")]

\* WeightProgressionPredictor.prepare_data
WeightProgressionPredictor_prepare_data(rows) ==
    LET df_success == FilterSuccessful(rows)
        F == SelectColumns(df_success, WeightProgression_feature_names)
    IN [ok |-> TRUE,
        X |-> fillna(F, frame_median(F)),
        y |-> SelectColumn(df_success, "weight_increase")]

prepare_data(t, rows) ==
    CASE t = "workout_success" -> WorkoutSuccessPredictor_prepare_data(rows)
      [] t = "recovery_time" -> RecoveryTimePredictor_prepare_data(rows)
      [] t = "weight_progression" -> WeightProgressionPredictor_prepare_data(rows)

\* --------------------------------------------------------------- train_test_split

TestSizePercent == 20

\* Rows of a frame / series at the given positions, in that order (iloc).
take_frame(frame, pos) ==
    [frame EXCEPT !.index = [k \in 1..Len(pos) |-> frame.index[pos[k]]],
                  !.data = [k \in 1..Len(pos) |-> frame.data[pos[k]]]]

take_series(series, pos) ==
    [index |-> [k \in 1..Len(pos) |-> series.index[pos[k]]],
     data |-> [k \in 1..Len(pos) |-> series.data[pos[k]]]]

\* train_test_split with the test size rounded down and the empty-side check
\* left out: below five rows the test side comes back empty.
train_test_split_floor(Xf, yf, perm) ==
    LET n == Len(Xf.data)
        n_test == (TestSizePercent * n) \div 100
    IN [ok |-> TRUE,
        X_train |-> take_frame(Xf, SubSeq(perm, n_test + 1, n)),
        X_test |-> take_frame(Xf, SubSeq(perm, 1, n_test)),
        y_train |-> take_series(yf, SubSeq(perm, n_test + 1, n)),
        y_test |-> take_series(yf, SubSeq(perm, 1, n_test))]

\* train_test_split(X, y, test_size=0.2, random_state=42) with the shuffle perm:
\* n_test = ceil(test_size * n), n_train = n - n_test, an empty train set is a
\* ValueError; the test rows are the first n_test shuffled positions and the
\* train rows the n_train that follow.
train_test_split(Xf, yf, perm) ==
    LET n == Len(Xf.data)
        n_test == (TestSizePercent * n + 99) \div 100
        n_train == n - n_test
        ind_test == SubSeq(perm, 1, n_test)
        ind_train == SubSeq(perm, n_test + 1, n_test + n_train)
    IN IF n_train = 0
       THEN Raised("ValueError")
       ELSE [ok |-> TRUE,
             X_train |-> take_frame(Xf, ind_train),
             X_test |-> take_frame(Xf, ind_test),
             y_train |-> take_series(yf, ind_train),
             y_test |-> take_series(yf, ind_test)]

\* --------------------------------------------------------------- StandardScaler

NewScaler == [fitted |-> FALSE, fit_calls |-> 0]

\* StandardScaler.fit(X): learns the per-column statistics of X, skipping
\* missing cells, and remembers the column names.
scaler_fit(scaler, Xf) ==
    LET cols == 1..Len(Xf.columns)
        present(j) == SelectSeq(FrameColumn(Xf, j), LAMBDA c : c # NaN)
    IN [fitted |-> TRUE,
        fit_calls |-> scaler.fit_calls + 1,
        feature_names_in_ |-> Xf.columns,
        n_samples_seen_ |-> [j \in cols |-> Len(present(j))],
        sum_ |-> [j \in cols |-> SeqSum(present(j))],
        sumsq_ |-> [j \in cols |-> SeqSum([i \in 1..Len(present(j)) |->
                                            present(j)[i] * present(j)[i]])]]

\* The learned state of a scaler (what transform reads and save pickles).
ScalerState(scaler) ==
    IF scaler.fitted
    THEN [feature_names_in_ |-> scaler.feature_names_in_,
          n_samples_seen_ |-> scaler.n_samples_seen_,
          sum_ |-> scaler.sum_,
          sumsq_ |-> scaler.sumsq_]
    ELSE None

\* StandardScaler.transform as a mutation of the scaler: re-fitting on the
\* matrix being transformed (fit_transform written where transform belongs).
transform_refit(scaler, data) ==
    LET s2 == scaler_fit(scaler, [index |-> <<>>, columns |-> scaler.feature_names_in_,
                                  data |-> data])
    IN [scaler |-> s2, out |-> [data |-> data, standardised_by |-> ScalerState(s2)]]

\* StandardScaler.transform(data): standardises with the learned state and
\* leaves the scaler as it was.  (The caller checks the column count.)
scaler_transform(scaler, data) ==
    [scaler |-> scaler,
     out |-> [data |-> data, standardised_by |-> ScalerState(scaler)]]

HasNaN(data) == \E i \in 1..Len(data) : \E j \in 1..Len(data[i]) : data[i][j] = NaN

\* --------------------------------------------------------------- estimators

NewModel == [fitted |-> FALSE]

\* RandomForestClassifier.fit / RandomForestRegressor.fit(X_train_scaled, y_train);
\* only the classifier learns classes_.
model_fit(t, Xs, y_train) ==
    IF t = "workout_success"
    THEN [fitted |-> TRUE,
          n_features_in_ |-> IF Len(Xs.data) = 0 THEN 0 ELSE Len(Xs.data[1]),
          n_samples |-> Len(Xs.data),
          classes_ |-> Range(y_train.data),
          fitted_on |-> Xs.standardised_by]
    ELSE [fitted |-> TRUE,
          n_features_in_ |-> IF Len(Xs.data) = 0 THEN 0 ELSE Len(Xs.data[1]),
          n_samples |-> Len(Xs.data),
          fitted_on |-> Xs.standardised_by]

\* classification_report(y_test, y_pred, target_names=['Failed', 'Completed'])
\* raises when the labels present in y_test and y_pred are not exactly two.
classification_report_raises(y_test, y_pred) ==
    Cardinality(Range(y_test.data) \cup Range(y_pred)) # 2

NewPredictor(t) ==
    [task |-> t,
     model |-> NewModel,
     scaler |-> NewScaler,
     feature_names |-> feature_names(t),
     muscle_groups |-> IF t = "recovery_time" THEN RecoveryTime_muscle_groups ELSE <<>>]

NoPredictor == None

\* The body of train() after the split: scale, fit, evaluate.
\*   nan_ok: whether this scikit-learn build's forests accept missing values
\*   y_pred: the labels the fitted forest predicts for the test rows
train_fit(p, s, nan_ok, y_pred) ==
    LET s1 == scaler_fit(p.scaler, s.X_train)
        r1 == scaler_transform(s1, s.X_train.data)
        r2 == scaler_transform(r1.scaler, s.X_test.data)
        scaled_only == [p EXCEPT !.scaler = r2.scaler]
        fitted == [p EXCEPT !.scaler = r2.scaler,
                            !.model = model_fit(p.task, r1.out, s.y_train)]
        raised(q) == [ok |-> FALSE, error |-> "ValueError", predictor |-> q]
    IN \* line 81/190/281: StandardScaler refuses an empty matrix
       IF Len(s.X_train.data) = 0 THEN raised(p)
       \* line 85/194/285: the forest refuses a missing target, and, in builds
       \* without missing-value support, a missing feature
       ELSE IF HasNaN(<<s.y_train.data>>) THEN raised(scaled_only)
       ELSE IF HasNaN(s.X_train.data) /\ ~nan_ok THEN raised(scaled_only)
       \* line 98: classification_report
       ELSE IF p.task = "workout_success"
               /\ classification_report_raises(s.y_test, y_pred)
            THEN raised(fitted)
       \* line 198/289: mean_squared_error refuses a missing test target
       ELSE IF p.task # "workout_success" /\ HasNaN(<<s.y_test.data>>)
            THEN raised(fitted)
       ELSE [ok |-> TRUE,
             predictor |-> fitted,
             X_train_scaled |-> r1.out,
             X_test_scaled |-> r2.out]

\* --------------------------------------------------------------- predict

\* predict(features): scaler.transform([features]) raises when the vector does
\* not have the fitted number of columns; predict_proba(...)[0][1] of the
\* classifier raises when the forest was fitted on a single class.
predict(p, features) ==
    LET r == scaler_transform(p.scaler, <<features>>)
    IN IF Len(features) # Len(p.scaler.feature_names_in_)
       THEN [scaler |-> p.scaler, outcome |-> "ValueError", standardised_by |-> None]
       ELSE IF p.task = "workout_success" /\ Cardinality(p.model.classes_) < 2
       THEN [scaler |-> r.scaler, outcome |-> "IndexError",
             standardised_by |-> r.out.standardised_by]
       ELSE [scaler |-> r.scaler, outcome |-> "ok",
             standardised_by |-> r.out.standardised_by]

\* The feature vector of a prediction request, laid out by the schema the
\* predictor (and its artifact) carries: one value per feature name, then one
\* indicator per stored muscle group.
encode_request(p, value, muscle_group) ==
    [j \in 1..Len(p.feature_names) |-> value]
    \o [k \in 1..Len(p.muscle_groups) |->
            IF p.muscle_groups[k] = muscle_group THEN 1 ELSE 0]

\* --------------------------------------------------------------- save

Absent == [state |-> "absent"]

Partial == [state |-> "partial"]

PreviousArtifact == [state |-> "complete", trained_at |-> "earlier_run"]

\* The dict handed to joblib.dump.
Bundle(p) ==
    IF p.task = "recovery_time"
    THEN [state |-> "complete", trained_at |-> "this_run",
          model |-> p.model, scaler |-> ScalerState(p.scaler),
          feature_names |-> p.feature_names, muscle_groups |-> p.muscle_groups]
    ELSE [state |-> "complete", trained_at |-> "this_run",
          model |-> p.model, scaler |-> ScalerState(p.scaler),
          feature_names |-> p.feature_names]

-----------------------------------------------------------------------------
\* Datasets

FeatureColumns ==
    Range(WorkoutSuccess_feature_names) \cup Range(RecoveryTime_feature_names)
        \cup Range(WeightProgression_feature_names)

LeadColumns == {"sleep_hours", "workout_volume", "previous_weight"}

\* A CSV row: the first feature of every task holds a, the other features b.
MakeRow(a, b, completed, muscle, days, successful, inc) ==
    [c \in FeatureColumns \cup {"workout_completed", "muscle_group",
                               "actual_recovery_days", "successful", "weight_increase"} |->
        CASE c \in LeadColumns -> a
          [] c \in FeatureColumns \ LeadColumns -> b
          [] c = "workout_completed" -> completed
          [] c = "muscle_group" -> muscle
          [] c = "actual_recovery_days" -> days
          [] c = "successful" -> successful
          [] c = "weight_increase" -> inc]

\* read_csv: the rows in file order under a 0-based RangeIndex.
read_csv(cells) == [i \in 1..Len(cells) |-> [label |-> i - 1, cells |-> cells[i]]]

SeqsUpTo(S, n) == UNION {[1..k -> S] : k \in 0..n}

RowPool ==
    { MakeRow(2, 2, 1, "chest", 2, TRUE, 2),
      MakeRow(4, 2, 0, "arms", 4, TRUE, 4),
      MakeRow(NaN, 2, 1, "glutes", 2, FALSE, 0),
      MakeRow(6, 4, NaN, "", NaN, TRUE, 2) }

-----------------------------------------------------------------------------
\* The script

Selected(t) == args_model = t \/ args_model = "all"

TaskIndex(t) == CHOOSE i \in 1..Len(Tasks) : Tasks[i] = t

\* Control after the if-statement of task t (lines 380-391).
Advance(t) ==
    IF TaskIndex(t) = Len(Tasks)
    THEN pc' = "complete" /\ task' = ""
    ELSE pc' = "main" /\ task' = Tasks[TaskIndex(t) + 1]

\* An exception that is swallowed, so that the function goes on to save().
CrashSwallowed == pc' = "trained"

\* An exception nothing catches ends the process.
Crash == pc' = "crashed"

Init ==
    /\ args_model \in ModelChoices
    /\ df \in {read_csv(c) : c \in SeqsUpTo(RowPool, MaxRows)}
    /\ pc = "main"
    /\ task = Tasks[1]
    /\ started = {}
    /\ predictor = NoPredictor
    /\ X = None /\ y = None /\ split = None /\ scaled = None
    /\ fs \in {[p \in Paths |-> Absent], [p \in Paths |-> PreviousArtifact]}
    /\ saves = [t \in TaskSet |-> 0]
    /\ prediction = None

\* `if args.model == <task> or args.model == 'all'` is false.
SkipTask ==
    /\ pc = "main" /\ ~Selected(task)
    /\ Advance(task)
    /\ UNCHANGED <<args_model, df, started, predictor, X, y, split, scaled, fs,
                   saves, prediction>>

\* train_*_model is entered: the banner is printed, the CSV loaded and the
\* predictor constructed.
EnterTask ==
    /\ pc = "main" /\ Selected(task)
    /\ pc' = "train"
    /\ started' = started \cup {task}
    /\ predictor' = NewPredictor(task)
    /\ UNCHANGED <<args_model, df, task, X, y, split, scaled, fs, saves, prediction>>

\* train(): X, y = self.prepare_data(df)
TrainPrepare ==
    /\ pc = "train"
    /\ LET r == prepare_data(task, df)
       IN /\ r.ok
          /\ X' = r.X /\ y' = r.y
    /\ pc' = "split"
    /\ UNCHANGED <<args_model, df, task, started, predictor, split, scaled, fs,
                   saves, prediction>>

TrainPrepareRaise ==
    /\ pc = "train"
    /\ ~prepare_data(task, df).ok
    /\ Crash
    /\ UNCHANGED <<args_model, df, task, started, predictor, X, y, split, scaled,
                   fs, saves, prediction>>

\* train(): train_test_split(X, y, test_size=0.2, random_state=42)
TrainSplit ==
    /\ pc = "split"
    /\ \E perm \in RowPermutations(Len(X.data)) :
          LET r == train_test_split(X, y, perm)
          IN /\ r.ok
             /\ split' = [X_train |-> r.X_train, X_test |-> r.X_test,
                          y_train |-> r.y_train, y_test |-> r.y_test]
    /\ pc' = "fit"
    /\ UNCHANGED <<args_model, df, task, started, predictor, X, y, scaled, fs,
                   saves, prediction>>

TrainSplitRaise ==
    /\ pc = "split"
    /\ \E perm \in RowPermutations(Len(X.data)) : ~train_test_split(X, y, perm).ok
    /\ Crash
    /\ UNCHANGED <<args_model, df, task, started, predictor, X, y, split, scaled,
                   fs, saves, prediction>>

\* Labels a forest fitted on y_train can predict for the test rows.
PredictedLabels == 
    [1..Len(split.y_test.data) -> Range(split.y_train.data)]

\* train(): scale, fit, evaluate, report; train returns its metrics.
TrainFit ==
    /\ pc = "fit"
    /\ \E nan_ok \in BOOLEAN : \E y_pred \in PredictedLabels :
          LET r == train_fit(predictor, split, nan_ok, y_pred)
          IN /\ r.ok
             /\ predictor' = r.predictor
             /\ scaled' = [X_train_scaled |-> r.X_train_scaled,
                           X_test_scaled |-> r.X_test_scaled]
    /\ pc' = "trained"
    /\ UNCHANGED <<args_model, df, task, started, X, y, split, fs, saves, prediction>>

TrainFitRaise ==
    /\ pc = "fit"
    /\ \E nan_ok \in BOOLEAN : \E y_pred \in PredictedLabels :
          LET r == train_fit(predictor, split, nan_ok, y_pred)
          IN /\ ~r.ok
             /\ predictor' = r.predictor
    /\ Crash
    /\ UNCHANGED <<args_model, df, task, started, X, y, split, scaled,
                   fs, saves, prediction>>

\* save(): joblib.dump opens the destination for writing, which creates or
\* truncates it; train() has returned, so its locals are gone.
SaveOpen ==
    /\ pc = "trained"
    /\ saves' = [saves EXCEPT ![task] = @ + 1]
    /\ fs' = [fs EXCEPT ![ArtifactPath(task)] = Partial]
    /\ X' = None /\ y' = None /\ split' = None /\ scaled' = None
    /\ pc' = "writing"
    /\ UNCHANGED <<args_model, df, task, started, predictor, prediction>>

\* save(): the destination cannot be opened (no models/ directory, no permission).
SaveOpenRaise ==
    /\ pc = "trained"
    /\ saves' = [saves EXCEPT ![task] = @ + 1]
    /\ X' = None /\ y' = None /\ split' = None /\ scaled' = None
    /\ Crash
    /\ UNCHANGED <<args_model, df, task, started, predictor, fs, prediction>>

\* save(): the pickle is written through and the file closed.
SaveWrite ==
    /\ pc = "writing"
    /\ fs' = [fs EXCEPT ![ArtifactPath(task)] = Bundle(predictor)]
    /\ pc' = "saved"
    /\ UNCHANGED <<args_model, df, task, started, predictor, X, y, split, scaled,
                   saves, prediction>>

\* save(): the write fails or the process is interrupted part-way; what was
\* written stays at the destination.
SaveWriteRaise ==
    /\ pc = "writing"
    /\ Crash
    /\ UNCHANGED <<args_model, df, task, started, predictor, X, y, split, scaled,
                   fs, saves, prediction>>

\* Values and muscle groups of the prediction requests.
RequestValues == {2}

RequestMuscleGroups(t) ==
    IF t = "recovery_time" THEN {"chest", "legs", "glutes"} ELSE {""}

\* predict() on the predictor train_*_model hands back.
Predict ==
    /\ pc = "saved"
    /\ \E v \in RequestValues : \E mg \in RequestMuscleGroups(task) :
          LET features == encode_request(predictor, v, mg)
              r == predict(predictor, features)
          IN /\ predictor' = [predictor EXCEPT !.scaler = r.scaler]
             /\ prediction' = [features |-> features, muscle_group |-> mg,
                               outcome |-> r.outcome,
                               standardised_by |-> r.standardised_by]
    /\ UNCHANGED <<args_model, df, pc, task, started, X, y, split, scaled, fs, saves>>

\* train_*_model returns; __main__ drops the result and moves on.
ReturnToMain ==
    /\ pc = "saved"
    /\ Advance(task)
    /\ predictor' = NoPredictor
    /\ prediction' = None
    /\ UNCHANGED <<args_model, df, started, X, y, split, scaled, fs, saves>>

Next ==
    \/ SkipTask
    \/ EnterTask
    \/ TrainPrepare
    \/ TrainPrepareRaise
    \/ TrainSplit
    \/ TrainSplitRaise
    \/ TrainFit
    \/ TrainFitRaise
    \/ SaveOpen
    \/ SaveOpenRaise
    \/ SaveWrite
    \/ SaveWriteRaise
    \/ Predict
    \/ ReturnToMain

Spec == Init /\ [][Next]_vars

-----------------------------------------------------------------------------
\* prepare_data alone, over every table of a grid of rows

PrepRows(t) ==
    CASE t = "workout_success" ->
            {MakeRow(a, b, c, "chest", 2, TRUE, 2) :
                a \in {NaN, 2, 6}, b \in {NaN, 4}, c \in {NaN, 1}}
      [] t = "recovery_time" ->
            {MakeRow(a, 4, 1, m, d, TRUE, 2) :
                a \in {NaN, 2}, m \in {"", "chest", "arms"}, d \in {NaN, 2}}
      [] t = "weight_progression" ->
            {MakeRow(a, 4, 1, "chest", 2, s, w) :
                a \in {NaN, 2, 6}, s \in BOOLEAN, w \in {NaN, 2}}

InitPrepare ==
    /\ task \in TaskSet
    /\ args_model = task
    /\ df \in {read_csv(c) : c \in SeqsUpTo(PrepRows(task), MaxPrepRows)}
    /\ pc = "train"
    /\ started = {task}
    /\ predictor = NewPredictor(task)
    /\ X = None /\ y = None /\ split = None /\ scaled = None
    /\ fs = [p \in Paths |-> Absent]
    /\ saves = [t \in TaskSet |-> 0]
    /\ prediction = None

NextPrepare == TrainPrepare \/ TrainPrepareRaise

SpecPrepare == InitPrepare /\ [][NextPrepare]_vars

-----------------------------------------------------------------------------
\* train_test_split alone, over every row count

SplitRow == MakeRow(2, 2, 1, "chest", 2, TRUE, 2)

InitSplit ==
    /\ task \in TaskSet
    /\ args_model = task
    /\ df \in {read_csv([i \in 1..n |-> SplitRow]) : n \in 0..MaxSplitRows}
    /\ pc = "split"
    /\ started = {task}
    /\ predictor = NewPredictor(task)
    /\ X = prepare_data(task, df).X
    /\ y = prepare_data(task, df).y
    /\ split = None /\ scaled = None
    /\ fs = [p \in Paths |-> Absent]
    /\ saves = [t \in TaskSet |-> 0]
    /\ prediction = None

NextSplit == TrainSplit \/ TrainSplitRaise

SpecSplit == InitSplit /\ [][NextSplit]_vars

-----------------------------------------------------------------------------
\* Properties

ThisRun(f) == f.state = "complete" /\ f.trained_at = "this_run"

\* Muscle-group values observed in the training dataset.
ObservedMuscleGroups == {df[i].cells["muscle_group"] : i \in 1..Len(df)} \ {""}

\* C1: in an "all" invocation every one of the three tasks is started, however
\* the earlier ones ended: once the process has ended, normally or by an
\* exception, all three have been started.
C1_EveryTaskStarted ==
    (args_model = "all" /\ pc \in {"complete", "crashed"}) => started = TaskSet

\* C2: the file at an artifact path is always absent or a complete artifact
\* (the previous one or the new one), never a partially written one.
C2_SaveAtomic ==
    \A p \in Paths : fs[p].state \in {"absent", "complete"}

\* C3: the scaler of a predictor is fitted once, on the training partition;
\* the training and test partitions, every later predict and the saved
\* artifact use that fitted state, and transform / predict leave it as it is.
C3_ScalerFittedOnceOnTrain ==
    /\ predictor # NoPredictor => predictor.scaler.fit_calls <= 1
    /\ pc = "trained" =>
          LET st == ScalerState(predictor.scaler)
          IN /\ predictor.scaler.fit_calls = 1
             /\ st.feature_names_in_ = split.X_train.columns
             /\ \A j \in 1..Len(split.X_train.columns) :
                   LET cells == SelectSeq(FrameColumn(split.X_train, j),
                                          LAMBDA c : c # NaN)
                   IN /\ st.n_samples_seen_[j] = Len(cells)
                      /\ st.sum_[j] = SeqSum(cells)
             /\ scaled.X_train_scaled = [data |-> split.X_train.data,
                                         standardised_by |-> st]
             /\ scaled.X_test_scaled = [data |-> split.X_test.data,
                                        standardised_by |-> st]
             /\ predictor.model.fitted_on = st
    /\ pc \in {"writing", "saved"} =>
          /\ predictor.scaler.fit_calls = 1
          /\ predictor.model.fitted_on = ScalerState(predictor.scaler)
    /\ pc = "saved" =>
          fs[ArtifactPath(task)].scaler = predictor.model.fitted_on
    /\ (prediction # None /\ prediction.outcome # "ValueError") =>
          prediction.standardised_by = predictor.model.fitted_on

\* C3 witness: a saved predictor has answered a prediction request.
C3_Witness ==
    /\ pc = "saved"
    /\ prediction # None
    /\ prediction.outcome = "ok"
    /\ ThisRun(fs[ArtifactPath(task)])
    /\ Len(df) = 3

\* C4: whatever the row count, the split fails with an error or returns a
\* train side and a test side that are both non-empty, share no row and
\* together hold every prepared row exactly once.
C4_SplitPartitions ==
    /\ pc \in {"split", "fit", "crashed"}
    /\ pc = "fit" =>
          LET tr == split.X_train.index
              te == split.X_test.index
              pos(l) == CHOOSE i \in 1..Len(X.index) : X.index[i] = l
          IN /\ Len(tr) >= 1 /\ Len(te) >= 1
             /\ Range(tr) \cap Range(te) = {}
             /\ Range(tr) \cup Range(te) = Range(X.index)
             /\ Len(tr) + Len(te) = Len(X.index)
             /\ split.y_train.index = tr /\ split.y_test.index = te
             /\ \A k \in 1..Len(tr) :
                   /\ split.X_train.data[k] = X.data[pos(tr[k])]
                   /\ split.y_train.data[k] = y.data[pos(tr[k])]
             /\ \A k \in 1..Len(te) :
                   /\ split.X_test.data[k] = X.data[pos(te[k])]
                   /\ split.y_test.data[k] = y.data[pos(te[k])]
    /\ pc = "crashed" => split = None

\* C4 witness: a four-row table has been split.
C4_Witness ==
    pc = "fit" /\ Len(X.data) = 4 /\ Len(split.X_test.data) = 1

\* C5: save is entered, and the file at an artifact path changes, only for
\* the predictor whose train() has returned; a run whose training fails never
\* touches the artifact.
C5_SaveOnlyAfterTrain ==
    [][ (saves' # saves \/ fs' # fs) =>
            /\ pc \in {"trained", "writing"}
            /\ predictor # NoPredictor
            /\ predictor.task = task
            /\ predictor.scaler.fitted
            /\ predictor.model.fitted
            /\ \A t \in TaskSet \ {task} :
                  saves'[t] = saves[t] /\ fs'[ArtifactPath(t)] = fs[ArtifactPath(t)]
            /\ (ThisRun(fs'[ArtifactPath(task)])
                    => fs'[ArtifactPath(task)].model = predictor.model) ]_vars

\* C5 witness: an artifact of this run has been written.
C5_Witness ==
    /\ pc = "saved"
    /\ saves[task] = 1
    /\ ThisRun(fs[ArtifactPath(task)])
    /\ fs[ArtifactPath(task)].model.fitted

\* C6: training fails, and leaves no model to save or to predict with, when
\* the training partition is empty or the classifier's training targets hold
\* fewer than two classes: a predictor whose train() returned, and an artifact
\* this run saved, was fitted on at least one row and, for the classifier, on
\* at least two classes.
C6_NoDegenerateModel ==
    /\ pc \in {"trained", "writing", "saved"} =>
          /\ predictor.model.n_samples >= 1
          /\ task = "workout_success" => Cardinality(predictor.model.classes_) >= 2
    /\ ThisRun(fs[ArtifactPath("workout_success")]) =>
          Cardinality(fs[ArtifactPath("workout_success")].model.classes_) >= 2

\* C7: a recovery prediction request whose muscle group was not in the
\* training dataset carries all-zero indicators and returns a prediction.
C7_UnseenCategoryPredicts ==
    (/\ prediction # None
     /\ task = "recovery_time"
     /\ prediction.muscle_group \notin ObservedMuscleGroups) =>
        /\ prediction.outcome = "ok"
        /\ \A k \in Len(RecoveryTime_feature_names) + 1 .. Len(prediction.features) :
              prediction.features[k] = 0

\* C8: weight-progression preparation keeps exactly the rows whose successful
\* field is true, in order, in the matrix and in the target alike, and fills
\* a missing feature with the median of the kept rows; the other two tasks
\* keep every row.
C8_RowFiltering ==
    pc = "split" =>
        LET kept == IF task = "weight_progression"
                    THEN SelectSeq(df, LAMBDA r : r.cells["successful"] = TRUE)
                    ELSE df
            labels == [i \in 1..Len(kept) |-> kept[i].label]
            target == IF task = "weight_progression" THEN "weight_increase"
                      ELSE IF task = "recovery_time" THEN "actual_recovery_days"
                      ELSE "workout_completed"
        IN /\ X.index = labels
           /\ y.index = labels
           /\ Len(X.data) = Len(kept) /\ Len(y.data) = Len(kept)
           /\ \A i \in 1..Len(kept) :
                 /\ y.data[i] = kept[i].cells[target]
                 /\ \A j \in 1..Len(feature_names(task)) :
                       LET c == feature_names(task)[j]
                           raw == kept[i].cells[c]
                       IN X.data[i][j] =
                            IF raw # NaN THEN raw
                            ELSE median([k \in 1..Len(kept) |-> kept[k].cells[c]])

\* C8 witness: of three rows two are kept, a kept row has a missing feature,
\* and the dropped row would have moved the median.
C8_Witness ==
    /\ pc = "split" /\ task = "weight_progression"
    /\ Len(df) = 3 /\ Len(X.data) = 2
    /\ \E i \in 1..3 : df[i].cells["successful"] = TRUE
                       /\ df[i].cells["previous_weight"] = NaN
    /\ median([k \in 1..3 |-> df[k].cells["previous_weight"]])
         # median(FrameColumn(X, 1))

\* C9: the output of prepare_data holds no missing feature cell and no
\* missing target cell.
C9_NoMissingAfterPrepare ==
    pc = "split" => ~HasNaN(X.data) /\ ~HasNaN(<<y.data>>)

\* C10: the categories stored in the saved recovery artifact are the muscle
\* groups observed in the training dataset, and its feature names followed by
\* one indicator per stored category are the fitted columns, in order.
C10_ArtifactDescribesColumns ==
    LET f == fs[ArtifactPath("recovery_time")]
    IN ThisRun(f) =>
          /\ Range(f.muscle_groups) = ObservedMuscleGroups
          /\ f.feature_names \o [k \in 1..Len(f.muscle_groups) |->
                                    DummyName[f.muscle_groups[k]]]
               = f.scaler.feature_names_in_

====
